---------------------------- MODULE Spec2Model ----------------------------
(***************************************************************************)
(* URDF export helpers of the FreeCAD robot workbench                      *)
(* (src/freecad/workbench_ros/urdf_utils.py).                              *)
(*                                                                         *)
(* Numbers.  A Python float is a fixed-point integer counting 1/Unit, so   *)
(* 1.0 is Unit and 0.0005 is 5.  The inputs are chosen so that every       *)
(* product and quotient the code forms is exact in that representation.    *)
(* Angles are counted in quarter turns (1 is pi/2): the rotations drawn    *)
(* as inputs are the 24 rotations of the cube, whose matrices hold only    *)
(* -1, 0 and 1 and whose roll, pitch and yaw are multiples of pi/2.        *)
(* A rotation is a quaternion (x, y, z, w) with integer components, a      *)
(* positive multiple of the unit quaternion FreeCAD stores.                *)
(*                                                                         *)
(* Optional values.  None is the empty sequence and a present value v is   *)
(* the one-element sequence <<v>>; an object attribute that does not exist *)
(* is the empty sequence too.                                              *)
(***************************************************************************)
EXTENDS Integers, Sequences, FiniteSets, TLC

VARIABLES fn, args, pc, ret, warned, default_placement, calls, prev, doc, frame

vars == <<fn, args, pc, ret, warned, default_placement, calls, prev, doc, frame>>

\* ------------------------------------------------------------- bounds

\* Largest primitive dimension drawn as an input, in millimetres.
MaxDim == 2

\* Longest list of leafs the flattening of an exported object returns.
MaxLeafs == 2

\* Longest list of children of a group given to export_group_with_lcs.
MaxGroup == 3

\* Longest sequence of calls a caller makes one after the other.
MaxCalls == 2

\* Largest number of objects selected when the bounding-box command runs.
MaxSelection == 2

\* ------------------------------------------------------------ numbers

\* The fixed-point scale: the float 1.0.
Unit == 10 ^ 4

Abs(n) == IF n < 0 THEN -n ELSE n

Sign(n) == IF n < 0 THEN -1 ELSE IF n > 0 THEN 1 ELSE 0

None == <<>>

Some(v) == <<v>>

\* Python truth value of an Optional[fc.Placement] (`not placement`): None is
\* false; a Placement object is true whatever it holds (FreeCAD's Placement
\* type answers nb_bool with 1).
Truthy(opt) == opt # None

\* The float x * 1e-3.
TimesMilli(x) == x \div 1000

\* Quantity.getValueAs('m') of a length the host stores in millimetres.
getValueAs_m(q) == TimesMilli(q)

\* Number of decimal digits of n > 0.
RECURSIVE Digits(_)
Digits(n) == IF n < 10 THEN 1 ELSE 1 + Digits(n \div 10)

\* Python's format spec '.6' of a float: rounded to 6 significant digits.
\* The significant digits of the fixed-point integer are its own digits.
Format6(x) ==
    LET a == Abs(x)
        d == IF a = 0 THEN 1 ELSE Digits(a)
        m == IF d > 6 THEN 10 ^ (d - 6) ELSE 1
    IN  Sign(x) * (((a + (m \div 2)) \div m) * m)

\* ------------------------------------------------------------ vectors

Vector(x, y, z) == <<x, y, z>>

VAdd(a, b) == <<a[1] + b[1], a[2] + b[2], a[3] + b[3]>>

\* fc.Vector / 2.0
VHalf(a) == <<a[1] \div 2, a[2] \div 2, a[3] \div 2>>

\* fc.Vector * 1e-3
VTimesMilli(a) == <<TimesMilli(a[1]), TimesMilli(a[2]), TimesMilli(a[3])>>

\* ---------------------------------------------------------- rotations

\* fc.Rotation(): the identity, (x, y, z, w) = (0, 0, 0, 1).
Rotation0 == <<0, 0, 0, 1>>

QDot(q) == q[1] * q[1] + q[2] * q[2] + q[3] * q[3] + q[4] * q[4]

\* The unit quaternion of the same direction: FreeCAD normalises the
\* quaternion of every Rotation it builds.  On the integer representatives
\* that is the division by the common divisor.
QNormalize(q) ==
    LET g == CHOOSE d \in 1..4 :
                 /\ \A i \in 1..4 : q[i] % d = 0
                 /\ \A e \in (d + 1)..4 : \E i \in 1..4 : q[i] % e # 0
    IN  <<q[1] \div g, q[2] \div g, q[3] \div g, q[4] \div g>>

\* fc.Rotation * fc.Rotation: the Hamilton product, normalised.
RMul(a, b) ==
    QNormalize(<<a[4] * b[1] + a[1] * b[4] + a[2] * b[3] - a[3] * b[2],
                 a[4] * b[2] - a[1] * b[3] + a[2] * b[4] + a[3] * b[1],
                 a[4] * b[3] + a[1] * b[2] - a[2] * b[1] + a[3] * b[4],
                 a[4] * b[4] - a[1] * b[1] - a[2] * b[2] - a[3] * b[3]>>)

\* The rows of the rotation matrix of quaternion q (any positive multiple of
\* a unit quaternion).
Mat3(q) ==
    LET n == QDot(q)
        x == q[1]
        y == q[2]
        z == q[3]
        w == q[4]
    IN  << << (n - 2 * (y * y + z * z)) \div n, (2 * (x * y - z * w)) \div n,
              (2 * (x * z + y * w)) \div n >>,
           << (2 * (x * y + z * w)) \div n, (n - 2 * (x * x + z * z)) \div n,
              (2 * (y * z - x * w)) \div n >>,
           << (2 * (x * z - y * w)) \div n, (2 * (y * z + x * w)) \div n,
              (n - 2 * (x * x + y * y)) \div n >> >>

MatVec(m, v) ==
    << m[1][1] * v[1] + m[1][2] * v[2] + m[1][3] * v[3],
       m[2][1] * v[1] + m[2][2] * v[2] + m[2][3] * v[3],
       m[3][1] * v[1] + m[3][2] * v[2] + m[3][3] * v[3] >>

\* Rotation.multVec: the vector turned by the rotation.
multVec(q, v) == MatVec(Mat3(q), v)

\* --------------------------------------------------------- placements

\* fc.Placement(base, rotation)
Placement(base, rotation) == [Base |-> base, Rotation |-> rotation]

\* fc.Placement(): the identity placement.
Placement0 == Placement(Vector(0, 0, 0), Rotation0)

\* fc.Placement * fc.Placement: b is applied first, then a in the parent frame.
PMul(a, b) ==
    Placement(VAdd(a.Base, multVec(a.Rotation, b.Base)),
              RMul(a.Rotation, b.Rotation))


\* ------------------------------------------------ rotation conversion

\* The entries of a numpy matrix are counted in steps that stand for the
\* machine epsilon np.finfo(float).eps, so that the values next to _EPS are
\* told apart.  MatOne is the float 1.0 on that grid: the real 1.0 is 2^52
\* steps, which no comparison of the code tells from 2^6.
MatOne == 2 ^ 6

\* _EPS = np.finfo(float).eps * 4.0
_EPS == 4

\* `nq < _EPS` for the squared norm nq of an integer quaternion (0, or at
\* least 1): _EPS lies strictly between 0 and 1.
BelowEps(x) == x < 1

\* `cy > _EPS` for a number cy on the grid of matrix entries.
AboveEps(x) == x > _EPS

\* math.sqrt, on the squares the inputs produce.
Sqrt(n) == CHOOSE r \in 0..n : r * r <= n /\ (r + 1) * (r + 1) > n

\* math.atan2(y, x) in quarter turns, for the directions along an axis
\* (atan2(0, 0) is 0; a negative zero is not told from zero, so atan2(0, -1)
\* is always +pi).
Atan2(y, x) ==
    CASE y = 0 /\ x >= 0 -> 0
      [] y > 0 /\ x = 0 -> 1
      [] y = 0 /\ x < 0 -> 2
      [] y < 0 /\ x = 0 -> -1

Identity4 ==
    << <<MatOne, 0, 0, 0>>, <<0, MatOne, 0, 0>>, <<0, 0, MatOne, 0>>,
       <<0, 0, 0, MatOne>> >>

\* quaternion_matrix: q is scaled to dot(q, q) = 2, so the outer product is
\* 2 * q[i] * q[j] / nq; o(i, j) is nq times that, and every entry of the
\* result is formed over the common denominator nq.
quaternion_matrix(quaternion) ==
    LET q == quaternion
        nq == QDot(q)
        o(i, j) == 2 * q[i + 1] * q[j + 1]
        e(n) == (MatOne * n) \div nq
    IN  IF BelowEps(nq)
        THEN Identity4
        ELSE << << e(nq - o(1, 1) - o(2, 2)), e(o(0, 1) - o(2, 3)),
                   e(o(0, 2) + o(1, 3)), 0 >>,
                << e(o(0, 1) + o(2, 3)), e(nq - o(0, 0) - o(2, 2)),
                   e(o(1, 2) - o(0, 3)), 0 >>,
                << e(o(0, 2) - o(1, 3)), e(o(1, 2) + o(0, 3)),
                   e(nq - o(0, 0) - o(1, 1)), 0 >>,
                << 0, 0, 0, MatOne >> >>

\* Mutant: the non-degenerate branch is taken at the threshold too.
euler_from_matrix_at_threshold(matrix) ==
    LET M(r, c) == matrix[r + 1][c + 1]
        i == 0
        j == 1
        k == 2
        cy == Sqrt(M(i, i) * M(i, i) + M(j, i) * M(j, i))
    IN  IF cy >= _EPS
        THEN << Atan2(M(k, j), M(k, k)), Atan2(-M(k, i), cy), Atan2(M(j, i), M(i, i)) >>
        ELSE << Atan2(-M(j, k), M(j, j)), Atan2(-M(k, i), cy), 0 >>

\* euler_from_matrix: M[r, c] of the code is M(r, c) here (indices from 0).
euler_from_matrix(matrix) ==
    LET M(r, c) == matrix[r + 1][c + 1]
        i == 0
        j == 1
        k == 2
        cy == Sqrt(M(i, i) * M(i, i) + M(j, i) * M(j, i))
    IN  IF AboveEps(cy)
        THEN << Atan2(M(k, j), M(k, k)), Atan2(-M(k, i), cy), Atan2(M(j, i), M(i, i)) >>
        ELSE << Atan2(-M(j, k), M(j, j)), Atan2(-M(k, i), cy), 0 >>

rpy_from_quaternion(q) == euler_from_matrix(quaternion_matrix(q))

\* np.degrees of an angle counted in quarter turns.
degrees(a) == 90 * a

\* fc.Rotation(axis, angle): the turn by angle degrees about a unit axis,
\* the quaternion (axis * sin(angle / 2), cos(angle / 2)).  For a multiple of
\* 90 degrees the sine and the cosine of the half angle are equal, or one of
\* them is 0, up to the sign.
RotationAxisAngle(axis, angle) ==
    LET h == (angle \div 90) % 8
        s == CASE h = 0 -> 0  [] h \in {1, 2, 3} -> 1
               [] h = 4 -> 0  [] h \in {5, 6, 7} -> -1
        c == CASE h \in {0, 1, 7} -> 1  [] h \in {2, 6} -> 0
               [] h \in {3, 4, 5} -> -1
    IN  <<axis[1] * s, axis[2] * s, axis[3] * s, c>>

\* Mutant: the three turns are composed in the opposite order.
rotation_from_rpy_reversed(rpy) ==
    RMul(RMul(RotationAxisAngle(Vector(1, 0, 0), degrees(rpy[1])),
              RotationAxisAngle(Vector(0, 1, 0), degrees(rpy[2]))),
         RotationAxisAngle(Vector(0, 0, 1), degrees(rpy[3])))

rotation_from_rpy(rpy) ==
    RMul(RMul(RotationAxisAngle(Vector(0, 0, 1), degrees(rpy[3])),
              RotationAxisAngle(Vector(0, 1, 0), degrees(rpy[2]))),
         RotationAxisAngle(Vector(1, 0, 0), degrees(rpy[1])))

\* ---------------------------------------------------------------- XML

\* An xml.etree element: tag, attributes (a record), children in order.
Element(tag, attrib, children) ==
    [tag |-> tag, attrib |-> attrib, children |-> children]

\* The attributes of an element written without any.
NoAttrib == [i \in {} |-> 0]

\* et.Comment(text): a child that is a comment node, not an element.
Comment(text) == Element("!comment", [text |-> text], <<>>)

\* The children of e that are elements (comments left out), in order.
ElementChildren(e) == SelectSeq(e.children, LAMBDA c : c.tag # "!comment")

\* Mutant: the translation is written in millimetres, the factor 1e-3 left out.
urdf_origin_from_placement_unscaled(p) ==
    LET rpy == rpy_from_quaternion(p.Rotation)
        v == p.Base
    IN  Element("origin",
                [xyz |-> <<Format6(v[1]), Format6(v[2]), Format6(v[3])>>,
                 rpy |-> rpy],
                <<>>)

\* urdf_origin_from_placement: xyz is p.Base * 1e-3 printed with 6 significant
\* digits, rpy is printed in full.
urdf_origin_from_placement(p) ==
    LET rpy == rpy_from_quaternion(p.Rotation)
        v == VTimesMilli(p.Base)
    IN  Element("origin",
                [xyz |-> <<Format6(v[1]), Format6(v[2]), Format6(v[3])>>,
                 rpy |-> rpy],
                <<>>)

urdf_geometry_box(length_x, length_y, length_z) ==
    Element("geometry", NoAttrib,
            << Element("box", [size |-> <<length_x, length_y, length_z>>], <<>>) >>)

urdf_geometry_sphere(radius) ==
    Element("geometry", NoAttrib,
            << Element("sphere", [radius |-> radius], <<>>) >>)

urdf_geometry_cylinder(radius, length) ==
    Element("geometry", NoAttrib,
            << Element("cylinder", [radius |-> radius, length |-> length], <<>>) >>)

urdf_geometry_mesh(mesh_name, package_name) ==
    Element("geometry", NoAttrib,
            << Element("mesh",
                       [filename |-> "package://" \o package_name
                                        \o "/meshes/" \o mesh_name],
                       <<>>) >>)

\* ------------------------------------------------------------ objects

\* A document object of the host, as the export reads it: its TypeId, its
\* Label, its Placement attribute (None when the object has none) and the
\* dimensions of a primitive in millimetres (0 where the kind has none).
DocumentObject(type, label, placement, length, width, height, radius) ==
    [TypeId |-> type, Label |-> label, Placement |-> placement,
     Length |-> length, Width |-> width, Height |-> height, Radius |-> radius]

is_box(obj) == obj.TypeId = "Part::Box"

is_sphere(obj) == obj.TypeId = "Part::Sphere"

is_cylinder(obj) == obj.TypeId = "Part::Cylinder"

has_placement(obj) == obj.Placement # None

\* ------------------------------------------------------ call outcomes

\* A call that returns value v.
Return(v) == [raised |-> "", value |-> <<v>>]

\* A call that raises the exception e and returns nothing.
Raise(e) == [raised |-> e, value |-> <<>>]

\* ------------------------------------------- canonical centre placement

\* Mutant: the offset to the centre is added along the parent's axes, not
\* along the axes of the placement.
urdf_box_placement_from_object_parent_axes(box, placement) ==
    IF ~is_box(box)
    THEN Raise("RuntimeError: First argument must be a 'Part::Box'")
    ELSE LET pl == IF ~Truthy(placement) THEN box.Placement ELSE placement
         IN  Return(Placement(VAdd(pl[1].Base,
                                   VHalf(Vector(box.Length, box.Width, box.Height))),
                              pl[1].Rotation))

urdf_box_placement_from_object(box, placement) ==
    IF ~is_box(box)
    THEN Raise("RuntimeError: First argument must be a 'Part::Box'")
    ELSE LET pl == IF ~Truthy(placement) THEN box.Placement ELSE placement
             to_center == Placement(VHalf(Vector(box.Length, box.Width, box.Height)),
                                    Rotation0)
         IN  Return(PMul(pl[1], to_center))

urdf_sphere_placement_from_object(sphere, placement) ==
    IF ~is_sphere(sphere)
    THEN Raise("RuntimeError: First argument must be a 'Part::Sphere'")
    ELSE LET pl == IF ~Truthy(placement) THEN sphere.Placement ELSE placement
         IN  Return(pl[1])

urdf_cylinder_placement_from_object(cyl, placement) ==
    IF ~is_cylinder(cyl)
    THEN Raise("RuntimeError: Argument must be a 'Part::Cylinder'")
    ELSE LET pl == IF ~Truthy(placement) THEN cyl.Placement ELSE placement
             to_center == Placement(Vector(0, 0, cyl.Height \div 2), Rotation0)
         IN  Return(PMul(pl[1], to_center))

\* ------------------------------------------ visual / collision emitters

\* Mutant: the object's placement is composed on the wrong side.
_urdf_generic_from_box_swapped(box, generic, placement, ignore_obj_placement) ==
    IF ~is_box(box)
    THEN Raise("RuntimeError: Argument must be a 'Part::Box'")
    ELSE IF ~ignore_obj_placement /\ placement = None
    THEN Raise("TypeError: unsupported operand type(s) for *")
    ELSE LET pl == IF ~ignore_obj_placement
                   THEN Some(PMul(box.Placement[1], placement[1]))
                   ELSE placement
             center_placement == urdf_box_placement_from_object(box, pl).value[1]
         IN  Return(Element(generic, NoAttrib,
                 << urdf_origin_from_placement(center_placement),
                    urdf_geometry_box(getValueAs_m(box.Length),
                                      getValueAs_m(box.Width),
                                      getValueAs_m(box.Height)) >>))

_urdf_generic_from_box(box, generic, placement, ignore_obj_placement) ==
    IF ~is_box(box)
    THEN Raise("RuntimeError: Argument must be a 'Part::Box'")
    ELSE IF ~ignore_obj_placement /\ placement = None
    THEN Raise("TypeError: unsupported operand type(s) for *")
    ELSE LET pl == IF ~ignore_obj_placement
                   THEN Some(PMul(placement[1], box.Placement[1]))
                   ELSE placement
             center_placement == urdf_box_placement_from_object(box, pl).value[1]
         IN  Return(Element(generic, NoAttrib,
                 << urdf_origin_from_placement(center_placement),
                    urdf_geometry_box(getValueAs_m(box.Length),
                                      getValueAs_m(box.Width),
                                      getValueAs_m(box.Height)) >>))

\* Mutant: the product is stored in the object the name is bound to.
Rebound_in_place(object, value) == value

\* The value of the object a name was bound to, after the assignment
\* `name = value`: the name is bound to the new object the expression built,
\* and the object it was bound to keeps its value.
Rebound(object, value) == object

\* The value of the object passed as `placement` when _urdf_generic_from_box
\* returns or raises: `placement = placement * box.Placement` is the only
\* statement that names it on the left.
placement_after_from_box(box, placement, ignore_obj_placement) ==
    IF is_box(box) /\ ~ignore_obj_placement /\ placement # None
    THEN Some(Rebound(placement[1], PMul(placement[1], box.Placement[1])))
    ELSE placement

placement_after_from_sphere(sphere, placement, ignore_obj_placement) ==
    IF is_sphere(sphere) /\ ~ignore_obj_placement /\ placement # None
    THEN Some(Rebound(placement[1], PMul(placement[1], sphere.Placement[1])))
    ELSE placement

placement_after_from_cylinder(cyl, placement, ignore_obj_placement) ==
    IF is_cylinder(cyl) /\ ~ignore_obj_placement /\ placement # None
    THEN Some(Rebound(placement[1], PMul(placement[1], cyl.Placement[1])))
    ELSE placement

\* Mutant: the kind of the object is not checked.
_urdf_generic_from_sphere_unchecked(sphere, generic, placement, ignore_obj_placement) ==
    IF ~ignore_obj_placement /\ (placement = None \/ sphere.Placement = None)
    THEN Raise("TypeError: unsupported operand type(s) for *")
    ELSE Return(Element(generic, NoAttrib,
                 << urdf_geometry_sphere(getValueAs_m(sphere.Radius)) >>))

\* The placement is composed and then not used: no origin is appended.
_urdf_generic_from_sphere(sphere, generic, placement, ignore_obj_placement) ==
    IF ~is_sphere(sphere)
    THEN Raise("RuntimeError: Argument must be a 'Part::Sphere'")
    ELSE IF ~ignore_obj_placement /\ placement = None
    THEN Raise("TypeError: unsupported operand type(s) for *")
    ELSE Return(Element(generic, NoAttrib,
                 << urdf_geometry_sphere(getValueAs_m(sphere.Radius)) >>))

_urdf_generic_from_cylinder(cyl, generic, placement, ignore_obj_placement) ==
    IF ~is_cylinder(cyl)
    THEN Raise("RuntimeError: Argument must be a 'Part::Cylinder'")
    ELSE IF ~ignore_obj_placement /\ placement = None
    THEN Raise("TypeError: unsupported operand type(s) for *")
    ELSE LET pl == IF ~ignore_obj_placement
                   THEN Some(PMul(placement[1], cyl.Placement[1]))
                   ELSE placement
             center_placement == urdf_cylinder_placement_from_object(cyl, pl).value[1]
         IN  Return(Element(generic, NoAttrib,
                 << urdf_origin_from_placement(center_placement),
                    urdf_geometry_cylinder(getValueAs_m(cyl.Radius),
                                           getValueAs_m(cyl.Height)) >>))

\* ------------------------------------------------ mesh reference emitter

\* The labels objects carry.
Labels == {"arm", "left arm", "wheel (1)"}

\* utils.get_valid_filename: the label made safe for a file system (blanks
\* become underscores, characters other than letters, digits, '-', '_' and
\* '.' are dropped).
get_valid_filename(label) ==
    CASE label = "arm" -> "arm"
      [] label = "left arm" -> "left_arm"
      [] label = "wheel (1)" -> "wheel_1"

\* utils.xml_comment: the text of an XML comment, padded with blanks.
xml_comment(text) == " " \o text \o " "

_urdf_generic_mesh(obj, mesh_name, package_name, generic, placement) ==
    IF ~Truthy(placement) /\ ~has_placement(obj)
    THEN Raise("RuntimeError: Argument must be a FreeCAD object with a 'Placement' attribute")
    ELSE IF placement = None
    THEN Raise("AttributeError: 'NoneType' object has no attribute 'Rotation'")
    ELSE Return(Element(generic, NoAttrib,
                 << Comment(xml_comment(obj.Label)),
                    urdf_origin_from_placement(placement[1]),
                    urdf_geometry_mesh(mesh_name, package_name) >>))

\* --------------------------------------------------- generic dispatcher

\* The 24 rotations of the cube, one quaternion for each.
CubeRotations ==
    { q \in {-1, 0, 1} \X {-1, 0, 1} \X {-1, 0, 1} \X {-1, 0, 1} :
        /\ QDot(q) \in {1, 2, 4}
        /\ \/ q[4] > 0
           \/ q[4] = 0 /\ q[1] > 0
           \/ q[4] = 0 /\ q[1] = 0 /\ q[2] > 0
           \/ q[4] = 0 /\ q[1] = 0 /\ q[2] = 0 /\ q[3] > 0 }

\* fc.Placement(matrix): the rigid transform a 4x4 matrix holds.
PlacementOfMatrix(m) ==
    Placement(Vector(m[1][4], m[2][4], m[3][4]),
              CHOOSE q \in CubeRotations :
                  Mat3(q) = << <<m[1][1], m[1][2], m[1][3]>>,
                               <<m[2][1], m[2][2], m[2][3]>>,
                               <<m[3][1], m[3][2], m[3][3]>> >>)

\* The dataclass XmlForExport.
XmlForExport(xml, object, placement, mesh_filename) ==
    [xml |-> xml, object |-> object, placement |-> placement,
     mesh_filename |-> mesh_filename]

\* Mutant: only None counts as no package name, the empty string does not.
NoPackageName_only_none(package_name) == package_name = None

\* `not package_name` for an Optional[str].
NoPackageName(package_name) == package_name = None \/ package_name = Some("")

\* One turn of the loop of _urdf_generic_from_object.  st holds the loop's
\* variables: out_data, package_name, the warnings emitted and the exception
\* that ended the loop ("" while it runs).  root_linked is
\* obj.getLinkedObject(recursive=True) of the exported object; leaf holds what
\* subobj.getLinkedObject(recursive=True, transform=True, matrix) returns.
from_object_body(st, root_linked, generic, placement, leaf) ==
    LET linked_object == leaf.linked_object
        linked_matrix == leaf.linked_matrix
        this_placement == IF ~Truthy(placement)
                          THEN PlacementOfMatrix(linked_matrix)
                          ELSE PMul(placement[1], PlacementOfMatrix(linked_matrix))
        is_mesh == ~is_box(linked_object) /\ ~is_sphere(linked_object)
                       /\ ~is_cylinder(linked_object)
        filename == IF is_mesh
                    THEN get_valid_filename(root_linked.Label) \o ".dae"
                    ELSE ""
        warns == is_mesh /\ NoPackageName(st.package_name)
        package_name == IF warns THEN Some("package") ELSE st.package_name
        xml == IF is_box(linked_object)
               THEN _urdf_generic_from_box(linked_object, generic,
                                           Some(this_placement), TRUE)
               ELSE IF is_sphere(linked_object)
               THEN _urdf_generic_from_sphere(linked_object, generic,
                                              Some(this_placement), TRUE)
               ELSE IF is_cylinder(linked_object)
               THEN _urdf_generic_from_cylinder(linked_object, generic,
                                                Some(this_placement), TRUE)
               ELSE _urdf_generic_mesh(linked_object, filename, package_name[1],
                                       generic, Some(this_placement))
    IN  [out_data |-> IF xml.raised = ""
                      THEN Append(st.out_data,
                                  XmlForExport(xml.value[1], linked_object,
                                               this_placement, filename))
                      ELSE st.out_data,
         package_name |-> package_name,
         warned |-> IF warns
                    THEN Append(st.warned,
                         "Internal error, package_name empty but mesh found, using 'package'")
                    ELSE st.warned,
         raised |-> xml.raised]

\* Mutant: the leafs are exported last to first.
RECURSIVE from_object_loop_reversed(_, _, _, _, _)
from_object_loop_reversed(st, root_linked, generic, placement, leafs) ==
    IF leafs = <<>> \/ st.raised # ""
    THEN st
    ELSE from_object_body(
             from_object_loop_reversed(st, root_linked, generic, placement, Tail(leafs)),
             root_linked, generic, placement, Head(leafs))

RECURSIVE from_object_loop(_, _, _, _, _)
from_object_loop(st, root_linked, generic, placement, leafs) ==
    IF leafs = <<>> \/ st.raised # ""
    THEN st
    ELSE from_object_loop(
             from_object_body(st, root_linked, generic, placement, Head(leafs)),
             root_linked, generic, placement, Tail(leafs))

\* _urdf_generic_from_object, with the flattening get_leafs_and_subnames(obj)
\* given as leafs.  The result holds the outcome and the warnings.
_urdf_generic_from_object(root_linked, leafs, generic, package_name, placement) ==
    LET st == from_object_loop([out_data |-> <<>>, package_name |-> package_name,
                                warned |-> <<>>, raised |-> ""],
                               root_linked, generic, placement, leafs)
    IN  [outcome |-> IF st.raised = "" THEN Return(st.out_data) ELSE Raise(st.raised),
         warned |-> st.warned]

\* ------------------------------------------------- group / LCS validator

is_group(obj) == obj.TypeId = "App::DocumentObjectGroup"

is_fclink(obj) == obj.TypeId = "App::Link"

is_lcs(obj) == obj.TypeId = "PartDesign::CoordinateSystem"

is_part(obj) == obj.TypeId = "App::Part"

label_or(obj) == obj.Label

\* Mutant: the loop ends at the first child that is no link.
RECURSIVE export_group_loop_aborting(_, _)
export_group_loop_aborting(warnings, fc_links) ==
    IF fc_links = <<>>
    THEN warnings
    ELSE LET fc_link == Head(fc_links)
             linked_object == fc_link.LinkedObject
         IN  IF ~is_fclink(fc_link)
             THEN Append(warnings, "'" \o label_or(fc_link) \o "' is not a link, ignoring")
             ELSE IF ~(is_lcs(linked_object) \/ is_part(linked_object))
             THEN export_group_loop_aborting(
                      Append(warnings,
                             "Linked object of '" \o label_or(fc_link)
                                 \o "' is not a coordinate system or part, ignoring"),
                      Tail(fc_links))
             ELSE export_group_loop_aborting(warnings, Tail(fc_links))

\* The loop of export_group_with_lcs over group.Group: the warnings emitted.
RECURSIVE export_group_loop(_, _)
export_group_loop(warnings, fc_links) ==
    IF fc_links = <<>>
    THEN warnings
    ELSE LET fc_link == Head(fc_links)
             linked_object == fc_link.LinkedObject
         IN  IF ~is_fclink(fc_link)
             THEN export_group_loop(
                      Append(warnings,
                             "'" \o label_or(fc_link) \o "' is not a link, ignoring"),
                      Tail(fc_links))
             ELSE IF ~(is_lcs(linked_object) \/ is_part(linked_object))
             THEN export_group_loop(
                      Append(warnings,
                             "Linked object of '" \o label_or(fc_link)
                                 \o "' is not a coordinate system or part, ignoring"),
                      Tail(fc_links))
             ELSE export_group_loop(warnings, Tail(fc_links))

export_group_with_lcs(group) ==
    IF ~is_group(group)
    THEN [outcome |-> Raise("ValueError: First argument must be a group, i.e. 'App::DocumentObjectGroup'"),
          warned |-> <<>>]
    ELSE [outcome |-> Return(TRUE),
          warned |-> export_group_loop(<<>>, group.Group)]

\* ------------------------------- command: cylinder from bounding box
\* (src/freecad/cross/ui/command_cylinder_from_bounding_box.py)

\* One element of fcgui.Selection.getSelectionEx('', 0), as Activated reads
\* it: the Label of its Object, HasSubObjects, SubElementNames[0], the TypeId
\* of the last object of obj.getSubObjectList(subpath), whether the object
\* the geometry is asked of has getPropertyOfGeometry (AttributeError
\* otherwise), ZLength and DiagonalLength of the bounding box of the geometry
\* in millimetres, and what get_global_placement(obj, subpath) returns.
SelectionObject(label, has_sub, subpath, origin_type, has_geometry, zlength, diagonal, gp) ==
    [Label |-> label, HasSubObjects |-> has_sub, SubElementName |-> subpath,
     origin_type |-> origin_type, has_geometry |-> has_geometry,
     ZLength |-> zlength, DiagonalLength |-> diagonal, global_placement |-> gp]

\* The active document: the transaction that is open (None when none is)
\* and the cylinders added, in order.
Document0 == [transaction |-> None, objects |-> <<>>]

\* doc.openTransaction(name): the host closes a transaction that is still
\* open and opens the new one.
openTransaction(d, name) == [d EXCEPT !.transaction = Some(name)]

\* doc.commitTransaction()
commitTransaction(d) == [d EXCEPT !.transaction = None]

\* doc.addObject('Part::Cylinder', name) followed by the assignments to the
\* properties of the cylinder.
addObject(d, cylinder) == [d EXCEPT !.objects = Append(@, cylinder)]

\* strip_subelement(subpath), for a sub-path that names no sub-element.
strip_subelement(subpath) == subpath

\* The local variables of Activated: the index of the selected object the
\* loop is at, the two flags, subobj_origin (None while the name is not
\* bound), and, for each object processed, what was done for it.
Frame0 ==
    [i |-> 0, is_one_object_compatible |-> FALSE,
     is_one_object_incompatible |-> FALSE, subobj_origin |-> None,
     results |-> <<>>]

\* What was done for one selected object.
Result(created, height, radius, placement, committed) ==
    [created |-> created, Height |-> height, Radius |-> radius,
     Placement |-> placement, committed |-> committed]

\* One turn of the loop of Activated, for the selected object sel, from the
\* local variables f and the document d.  placement_is_copy tells whether
\* the attribute read cylinder.Placement returns a copy of the stored
\* placement, so that the assignment to cylinder.Placement.Base.z is lost.
Activated_body(f, d, sel, placement_is_copy) ==
    LET inside == sel.HasSubObjects
        subobj_origin == IF inside THEN Some(sel.origin_type) ELSE f.subobj_origin
        placement == IF inside
                     THEN Placement(sel.global_placement.Base, Rotation0)
                     ELSE Placement0
        box_name == IF inside
                    THEN sel.Label \o "." \o strip_subelement(sel.SubElementName)
                             \o "_bbox"
                    ELSE sel.Label \o "_bbox"
        opened == openTransaction(d, "Cylinder from bounding box")
        corrected == /\ subobj_origin # None
                     /\ subobj_origin[1] = "PartDesign::FeatureBase"
                     /\ ~placement_is_copy
        own == IF corrected
               THEN Placement(Vector(0, 0, -(sel.ZLength \div 2)), Rotation0)
               ELSE Placement0
        cylinder(pl) == [Label |-> box_name, Height |-> sel.ZLength,
                         Radius |-> sel.DiagonalLength \div 2, Placement |-> pl]
        next(r) == [f EXCEPT !.i = @ + 1, !.subobj_origin = subobj_origin,
                             !.results = Append(@, r)]
    IN  IF ~sel.has_geometry
        THEN [frame |-> [next(Result(FALSE, 0, 0, Placement0, FALSE))
                            EXCEPT !.is_one_object_incompatible = TRUE],
              doc |-> d]
        ELSE IF subobj_origin = None
        THEN \* NameError at the read of subobj_origin: continue
             [frame |-> [next(Result(TRUE, sel.ZLength, sel.DiagonalLength \div 2,
                                     Placement0, FALSE))
                            EXCEPT !.is_one_object_compatible = TRUE],
              doc |-> addObject(opened, cylinder(Placement0))]
        ELSE [frame |-> [next(Result(TRUE, sel.ZLength, sel.DiagonalLength \div 2,
                                     PMul(placement, own), TRUE))
                            EXCEPT !.is_one_object_compatible = TRUE],
              doc |-> commitTransaction(
                          addObject(opened, cylinder(PMul(placement, own))))]

\* ------------------------------------------------------------- inputs

\* Rotations given as inputs: none, and a quarter turn about x, y and z.
RotSet == {Rotation0, <<1, 0, 0, 1>>, <<0, 1, 0, 1>>, <<0, 0, 1, 1>>}

\* A coordinate, in millimetres, whose value in metres has seven significant
\* digits (100.0001 m).
BigCoord == 1000001 * 1000

\* Placements objects store.
ObjPlacements ==
    { Placement0,
      Placement(Vector(10 * Unit, 20 * Unit, 30 * Unit), Rotation0),
      Placement(Vector(10 * Unit, 20 * Unit, 30 * Unit), <<1, 0, 0, 1>>),
      Placement(Vector(BigCoord, 0, -5 * Unit), <<0, 0, 1, 1>>),
      Placement(Vector(0, 0, 0), <<0, 1, 0, 1>>) }

\* Placements callers supply.
CallerPlacements ==
    { Placement0,
      Placement(Vector(Unit, 2 * Unit, 3 * Unit), <<0, 0, 1, 1>>),
      Placement(Vector(0, BigCoord, 0), <<1, 0, 0, 1>>),
      Placement(Vector(-4 * Unit, 0, BigCoord), <<0, 1, 0, 1>>) }

OptCallerPlacements == {None} \cup { Some(p) : p \in CallerPlacements }

\* Dimensions of primitives, in millimetres.
Dims == { d * Unit : d \in 1..MaxDim }

Boxes ==
    { DocumentObject("Part::Box", "arm", Some(p), l, w, h, 0) :
        p \in ObjPlacements, l \in Dims, w \in Dims, h \in Dims }

Cylinders ==
    { DocumentObject("Part::Cylinder", "left arm", Some(p), 0, 0, h, r) :
        p \in ObjPlacements, h \in Dims, r \in Dims }

Spheres ==
    { DocumentObject("Part::Sphere", "wheel (1)", Some(p), 0, 0, 0, r) :
        p \in ObjPlacements, r \in Dims }

\* Shapes that are no primitive (exported as meshes), and objects that have
\* no Placement attribute.
Others ==
    { DocumentObject("Part::Feature", l, Some(p), 0, 0, 0, 0) :
        l \in Labels, p \in ObjPlacements }
    \cup { DocumentObject("App::FeaturePython", l, None, 0, 0, 0, 0) : l \in Labels }

AllObjects == Boxes \cup Cylinders \cup Spheres \cup Others

\* fc.Placement.toMatrix(): the 4x4 matrix of a placement.
Matrix(p) ==
    LET r == Mat3(p.Rotation)
    IN  << <<r[1][1], r[1][2], r[1][3], p.Base[1]>>,
           <<r[2][1], r[2][2], r[2][3], p.Base[2]>>,
           <<r[3][1], r[3][2], r[3][3], p.Base[3]>>,
           <<0, 0, 0, 1>> >>

\* What getLinkedObject(recursive=True, transform=True) returns for a leaf:
\* the resolved object and the matrix accumulated along the path to it.
Leaf(linked_object, linked_matrix) ==
    [linked_object |-> linked_object, linked_matrix |-> linked_matrix]

LeafObjects ==
    { DocumentObject("Part::Box", "arm",
                     Some(Placement(Vector(10 * Unit, 20 * Unit, 30 * Unit), <<1, 0, 0, 1>>)),
                     Unit, 2 * Unit, Unit, 0),
      DocumentObject("Part::Cylinder", "left arm", Some(Placement0), 0, 0, 2 * Unit, Unit),
      DocumentObject("Part::Sphere", "wheel (1)",
                     Some(Placement(Vector(0, 0, 0), <<0, 1, 0, 1>>)), 0, 0, 0, Unit),
      DocumentObject("Part::Feature", "left arm", Some(Placement0), 0, 0, 0, 0),
      DocumentObject("Part::Feature", "wheel (1)",
                     Some(Placement(Vector(BigCoord, 0, -5 * Unit), <<0, 0, 1, 1>>)),
                     0, 0, 0, 0),
      DocumentObject("App::FeaturePython", "arm", None, 0, 0, 0, 0) }

LeafMatrices ==
    { Matrix(Placement0),
      Matrix(Placement(Vector(BigCoord, 0, -5 * Unit), <<0, 0, 1, 1>>)) }

Leafs == { Leaf(o, m) : o \in LeafObjects, m \in LeafMatrices }

\* The sequences over S of length at most n.
SeqUpTo(S, n) == UNION { [1..k -> S] : k \in 0..n }

\* A group, read through TypeId, Label and Group.
GroupObject(type, label, group) == [TypeId |-> type, Label |-> label, Group |-> group]

\* A child of a group, read through TypeId, Label and LinkedObject.
LinkObject(type, label, linked_type) ==
    [TypeId |-> type, Label |-> label, LinkedObject |-> [TypeId |-> linked_type]]

GroupChildren ==
    { LinkObject("App::Link", l, t) :
        l \in {"arm", "left arm"},
        t \in {"PartDesign::CoordinateSystem", "App::Part", "Part::Box"} }
    \cup { LinkObject("Part::Box", l, "") : l \in {"arm", "left arm"} }

\* The exported object of a dispatcher call: what
\* obj.getLinkedObject(recursive=True) resolves to, and its flattening.  An
\* object that is a leaf itself flattens to itself; a group flattens to any
\* list of leafs.
Roots ==
    { [linked |-> l.linked_object, leafs |-> <<l>>] : l \in Leafs }
    \cup { [linked |-> GroupObject("App::DocumentObjectGroup", lb, <<>>), leafs |-> ls] :
             lb \in {"arm", "left arm"}, ls \in SeqUpTo(Leafs, MaxLeafs) }

PackageNames == {None, Some(""), Some("my_robot")}

\* Quaternions given to rpy_from_quaternion: the rotations of the cube, each
\* as q and as -q.
Quaternions ==
    CubeRotations \cup { <<-q[1], -q[2], -q[3], -q[4]>> : q \in CubeRotations }

\* Roll, pitch and yaw given to rotation_from_rpy, in quarter turns.
Rpys == {-1, 0, 1, 2} \X {-1, 0, 1, 2} \X {-1, 0, 1, 2}

\* Matrices whose cy = sqrt(M[0,0]^2 + M[1,0]^2) is 0, one step below _EPS,
\* _EPS, and one step above it.  M[2,0] is 0; the lower right block is the
\* identity, a quarter turn about x, or a reflection.
ThresholdMatrices ==
    { << <<c[1], 0, 0>>, <<c[2], b[1], b[2]>>, <<0, b[3], b[4]>> >> :
        c \in { <<a, 0>> : a \in {0, _EPS - 1, _EPS, _EPS + 1,
                                   1 - _EPS, -_EPS, -_EPS - 1} }
              \cup { <<0, a>> : a \in {_EPS - 1, _EPS, _EPS + 1,
                                        1 - _EPS, -_EPS, -_EPS - 1} },
        b \in { <<MatOne, 0, 0, MatOne>>, <<0, -MatOne, MatOne, 0>>,
                <<-MatOne, 0, 0, MatOne>> } }

\* Objects selected when the bounding-box command runs: inside a part (the
\* last object of the sub-path a PartDesign::FeatureBase or another feature,
\* with or without geometry) and outside any part (with or without geometry).
SelectionObjects ==
    { SelectionObject("arm", TRUE, "Body.", t, g, 2 * Unit, 6 * Unit,
                      Placement(Vector(10 * Unit, 20 * Unit, 30 * Unit),
                                <<0, 0, 1, 1>>)) :
        t \in {"PartDesign::FeatureBase", "Part::Feature"}, g \in BOOLEAN }
    \cup { SelectionObject("wheel", FALSE, "", "", g, 4 * Unit, 10 * Unit,
                           Placement0) : g \in BOOLEAN }

\* Matrices given to euler_from_matrix.
Matrices == { quaternion_matrix(q) : q \in CubeRotations } \cup ThresholdMatrices

PlacementFns ==
    { "urdf_box_placement_from_object", "urdf_sphere_placement_from_object",
      "urdf_cylinder_placement_from_object" }

EmitterFns ==
    { "urdf_visual_from_box", "urdf_collision_from_box",
      "urdf_visual_from_sphere", "urdf_collision_from_sphere",
      "urdf_visual_from_cylinder", "urdf_collision_from_cylinder" }

MeshFns == { "urdf_visual_mesh", "urdf_collision_mesh" }

ObjectFns == { "urdf_visual_from_object", "urdf_collision_from_object" }

\* -------------------------------------------------------- state machine

\* One call of one function of the module: Init draws the function and its
\* arguments, the function's action runs it and stores what it returns or
\* raises in ret and what it logs through warn() in warned.
Init ==
    /\ pc = "call"
    /\ ret = Raise("")
    /\ warned = <<>>
    /\ default_placement = [f \in EmitterFns \cup MeshFns |-> Placement0]
    /\ calls = 1
    /\ prev = [fn |-> "", shared |-> FALSE, composed |-> FALSE]
    /\ doc = Document0
    /\ frame = Frame0
    /\ \/ /\ fn \in PlacementFns
          /\ args \in [obj : AllObjects, placement : OptCallerPlacements]
       \/ /\ fn \in EmitterFns
          /\ args \in [obj : AllObjects, placement_given : {FALSE},
                       placement : {None}, ignore_obj_placement : BOOLEAN]
                      \cup [obj : AllObjects, placement_given : {TRUE},
                            placement : OptCallerPlacements,
                            ignore_obj_placement : BOOLEAN]
       \/ /\ fn \in MeshFns
          /\ args \in [obj : Others, mesh_name : {"arm.dae", "left_arm.dae"},
                       package_name : {"my_robot", "package"},
                       placement_given : {FALSE}, placement : {None}]
                      \cup [obj : Others, mesh_name : {"arm.dae", "left_arm.dae"},
                            package_name : {"my_robot", "package"},
                            placement_given : {TRUE}, placement : OptCallerPlacements]
       \/ /\ fn \in ObjectFns
          /\ args \in [obj : Roots, package_name : PackageNames,
                       placement : {None, Some(Placement0),
                                    Some(Placement(Vector(0, BigCoord, 0), <<1, 0, 0, 1>>))}]
       \/ /\ fn = "rpy_from_quaternion"
          /\ args \in [q : Quaternions]
       \/ /\ fn = "rotation_from_rpy"
          /\ args \in [rpy : Rpys]
       \/ /\ fn = "euler_from_matrix"
          /\ args \in [matrix : Matrices]
       \/ /\ fn = "Activated"
          /\ args \in [selection : SeqUpTo(SelectionObjects, MaxSelection),
                       placement_is_copy : BOOLEAN]
       \/ /\ fn = "export_group_with_lcs"
          /\ args \in [group : { GroupObject("App::DocumentObjectGroup", "arm", g) :
                                   g \in SeqUpTo(GroupChildren, MaxGroup) }
                               \cup { GroupObject(t, "arm", <<>>) :
                                        t \in {"App::Part", "App::Link", "Part::Box"} }]

\* The value of a `placement` parameter whose default is fc.Placement(): the
\* default is one object, built when the function is defined and shared by
\* all the calls that omit the argument.
PlacementOrDefault(a) ==
    IF a.placement_given THEN a.placement ELSE Some(default_placement[fn])

Returns(outcome, warnings) ==
    /\ ret' = outcome
    /\ warned' = warnings
    /\ pc' = "done"
    /\ UNCHANGED <<fn, args, default_placement, calls, prev, doc, frame>>

\* A primitive emitter returns or raises outcome, and the object passed as
\* `placement` (the caller's, or the shared default) holds the value after.
EmitterReturns(outcome, after) ==
    /\ ret' = outcome
    /\ warned' = <<>>
    /\ pc' = "done"
    /\ IF args.placement_given
       THEN /\ args' = [args EXCEPT !.placement = after]
            /\ UNCHANGED default_placement
       ELSE /\ default_placement' = [default_placement EXCEPT ![fn] = after[1]]
            /\ UNCHANGED args
    /\ UNCHANGED <<fn, calls, prev, doc, frame>>

Call_urdf_box_placement_from_object ==
    /\ pc = "call" /\ fn = "urdf_box_placement_from_object"
    /\ Returns(urdf_box_placement_from_object(args.obj, args.placement), <<>>)

Call_urdf_sphere_placement_from_object ==
    /\ pc = "call" /\ fn = "urdf_sphere_placement_from_object"
    /\ Returns(urdf_sphere_placement_from_object(args.obj, args.placement), <<>>)

Call_urdf_cylinder_placement_from_object ==
    /\ pc = "call" /\ fn = "urdf_cylinder_placement_from_object"
    /\ Returns(urdf_cylinder_placement_from_object(args.obj, args.placement), <<>>)

urdf_visual_from_box ==
    /\ pc = "call" /\ fn = "urdf_visual_from_box"
    /\ EmitterReturns(
           _urdf_generic_from_box(args.obj, "visual", PlacementOrDefault(args), args.ignore_obj_placement),
           placement_after_from_box(args.obj, PlacementOrDefault(args),
               args.ignore_obj_placement))

urdf_collision_from_box ==
    /\ pc = "call" /\ fn = "urdf_collision_from_box"
    /\ EmitterReturns(
           _urdf_generic_from_box(args.obj, "collision", PlacementOrDefault(args), args.ignore_obj_placement),
           placement_after_from_box(args.obj, PlacementOrDefault(args),
               args.ignore_obj_placement))

urdf_visual_from_sphere ==
    /\ pc = "call" /\ fn = "urdf_visual_from_sphere"
    /\ EmitterReturns(
           _urdf_generic_from_sphere(args.obj, "visual", PlacementOrDefault(args), args.ignore_obj_placement),
           placement_after_from_sphere(args.obj, PlacementOrDefault(args),
               args.ignore_obj_placement))

urdf_collision_from_sphere ==
    /\ pc = "call" /\ fn = "urdf_collision_from_sphere"
    /\ EmitterReturns(
           _urdf_generic_from_sphere(args.obj, "collision", PlacementOrDefault(args), args.ignore_obj_placement),
           placement_after_from_sphere(args.obj, PlacementOrDefault(args),
               args.ignore_obj_placement))

urdf_visual_from_cylinder ==
    /\ pc = "call" /\ fn = "urdf_visual_from_cylinder"
    /\ EmitterReturns(
           _urdf_generic_from_cylinder(args.obj, "visual", PlacementOrDefault(args), args.ignore_obj_placement),
           placement_after_from_cylinder(args.obj, PlacementOrDefault(args),
               args.ignore_obj_placement))

urdf_collision_from_cylinder ==
    /\ pc = "call" /\ fn = "urdf_collision_from_cylinder"
    /\ EmitterReturns(
           _urdf_generic_from_cylinder(args.obj, "collision", PlacementOrDefault(args), args.ignore_obj_placement),
           placement_after_from_cylinder(args.obj, PlacementOrDefault(args),
               args.ignore_obj_placement))

urdf_visual_mesh ==
    /\ pc = "call" /\ fn = "urdf_visual_mesh"
    /\ Returns(_urdf_generic_mesh(args.obj, args.mesh_name, args.package_name,
                                  "visual", PlacementOrDefault(args)), <<>>)

urdf_collision_mesh ==
    /\ pc = "call" /\ fn = "urdf_collision_mesh"
    /\ Returns(_urdf_generic_mesh(args.obj, args.mesh_name, args.package_name,
                                  "collision", PlacementOrDefault(args)), <<>>)

urdf_visual_from_object ==
    /\ pc = "call" /\ fn = "urdf_visual_from_object"
    /\ LET r == _urdf_generic_from_object(args.obj.linked, args.obj.leafs, "visual",
                                          args.package_name, args.placement)
       IN  Returns(r.outcome, r.warned)

urdf_collision_from_object ==
    /\ pc = "call" /\ fn = "urdf_collision_from_object"
    /\ LET r == _urdf_generic_from_object(args.obj.linked, args.obj.leafs, "collision",
                                          args.package_name, args.placement)
       IN  Returns(r.outcome, r.warned)

Call_export_group_with_lcs ==
    /\ pc = "call" /\ fn = "export_group_with_lcs"
    /\ LET r == export_group_with_lcs(args.group)
       IN  Returns(r.outcome, r.warned)

Call_euler_from_matrix ==
    /\ pc = "call" /\ fn = "euler_from_matrix"
    /\ Returns(Return(euler_from_matrix(args.matrix)), <<>>)

Call_rpy_from_quaternion ==
    /\ pc = "call" /\ fn = "rpy_from_quaternion"
    /\ Returns(Return(rpy_from_quaternion(args.q)), <<>>)

\* rotation_from_rpy, called on angles the caller holds or, as the inverse of
\* rpy_from_quaternion, on the angles that function has just returned.
Call_rotation_from_rpy ==
    \/ /\ pc = "call" /\ fn = "rotation_from_rpy"
       /\ Returns(Return(rotation_from_rpy(args.rpy)), <<>>)
    \/ /\ pc = "done" /\ fn = "rpy_from_quaternion"
       /\ ret' = Return(rotation_from_rpy(ret.value[1]))
       /\ pc' = "back"
       /\ UNCHANGED <<fn, args, warned, default_placement, calls, prev, doc, frame>>

\* Activated up to the loop: nothing is done for an empty selection.
Activated_enter ==
    /\ pc = "call" /\ fn = "Activated"
    /\ IF args.selection = <<>>
       THEN /\ pc' = "done"
            /\ ret' = Return(None)
            /\ UNCHANGED frame
       ELSE /\ pc' = "loop"
            /\ frame' = [Frame0 EXCEPT !.i = 1]
            /\ UNCHANGED ret
    /\ UNCHANGED <<fn, args, warned, default_placement, calls, prev, doc>>

\* One turn of the loop, for the next selected object.
Activated_object ==
    /\ pc = "loop" /\ fn = "Activated"
    /\ frame.i <= Len(args.selection)
    /\ LET r == Activated_body(frame, doc, args.selection[frame.i],
                               args.placement_is_copy)
       IN  /\ frame' = r.frame
           /\ doc' = r.doc
    /\ UNCHANGED <<fn, args, pc, ret, warned, default_placement, calls, prev>>

\* After the loop: the messages, and the return.
Activated_leave ==
    /\ pc = "loop" /\ fn = "Activated"
    /\ frame.i > Len(args.selection)
    /\ warned' = (IF ~frame.is_one_object_compatible
                  THEN <<"No compatible object selected">> ELSE <<>>)
                 \o (IF frame.is_one_object_incompatible
                     THEN <<"One or more incompatible object selected">> ELSE <<>>)
    /\ ret' = Return(None)
    /\ pc' = "done"
    /\ UNCHANGED <<fn, args, default_placement, calls, prev, doc, frame>>

\* The objects of the later calls of a sequence, one of each kind.
LaterObject(f) ==
    LET p == Some(Placement(Vector(10 * Unit, 20 * Unit, 30 * Unit), <<1, 0, 0, 1>>))
    IN  CASE f \in {"urdf_visual_from_box", "urdf_collision_from_box"}
               -> DocumentObject("Part::Box", "arm", p, Unit, Unit, Unit, 0)
          [] f \in {"urdf_visual_from_sphere", "urdf_collision_from_sphere"}
               -> DocumentObject("Part::Sphere", "wheel (1)", p, 0, 0, 0, Unit)
          [] f \in {"urdf_visual_from_cylinder", "urdf_collision_from_cylinder"}
               -> DocumentObject("Part::Cylinder", "left arm", p, 0, 0, Unit, Unit)
          [] OTHER -> DocumentObject("Part::Feature", "arm", p, 0, 0, 0, 0)

\* The caller makes the next call of a sequence: an emitter, with the
\* placement omitted or with the placement object it gave to the call before.
AnotherCall ==
    /\ pc = "done"
    /\ fn \in PlacementFns \cup EmitterFns \cup MeshFns \cup ObjectFns
    /\ calls < MaxCalls
    /\ \E f \in EmitterFns \cup MeshFns, given \in BOOLEAN :
          LET placement == IF given THEN args.placement ELSE None
          IN  /\ given => args.placement # None
              /\ fn' = f
              /\ args' = IF f \in EmitterFns
                         THEN [obj |-> LaterObject(f), placement_given |-> given,
                               placement |-> placement,
                               ignore_obj_placement |-> FALSE]
                         ELSE [obj |-> LaterObject(f), mesh_name |-> "arm.dae",
                               package_name |-> "my_robot",
                               placement_given |-> given, placement |-> placement]
    /\ prev' = [fn |-> fn,
                shared |-> fn \in EmitterFns \cup MeshFns /\ ~args.placement_given,
                composed |-> fn \in EmitterFns /\ ret.raised = ""
                                /\ ~args.ignore_obj_placement]
    /\ calls' = calls + 1
    /\ pc' = "call"
    /\ ret' = Raise("")
    /\ warned' = <<>>
    /\ UNCHANGED <<default_placement, doc, frame>>

Next ==
    \/ Activated_enter
    \/ Activated_object
    \/ Activated_leave
    \/ AnotherCall
    \/ Call_euler_from_matrix
    \/ Call_rpy_from_quaternion
    \/ Call_rotation_from_rpy
    \/ Call_urdf_box_placement_from_object
    \/ Call_urdf_sphere_placement_from_object
    \/ Call_urdf_cylinder_placement_from_object
    \/ urdf_visual_from_box
    \/ urdf_collision_from_box
    \/ urdf_visual_from_sphere
    \/ urdf_collision_from_sphere
    \/ urdf_visual_from_cylinder
    \/ urdf_collision_from_cylinder
    \/ urdf_visual_mesh
    \/ urdf_collision_mesh
    \/ urdf_visual_from_object
    \/ urdf_collision_from_object
    \/ Call_export_group_with_lcs

Spec == Init /\ [][Next]_vars

\* ------------------------------------------------------------- claims

Done == pc = "done"

\* The role a public function emits its fragment for.
Role(f) ==
    IF f \in { "urdf_visual_from_box", "urdf_visual_from_sphere",
               "urdf_visual_from_cylinder", "urdf_visual_mesh",
               "urdf_visual_from_object" }
    THEN "visual"
    ELSE "collision"

BoxFns == { "urdf_visual_from_box", "urdf_collision_from_box" }

SphereFns == { "urdf_visual_from_sphere", "urdf_collision_from_sphere" }

CylinderFns == { "urdf_visual_from_cylinder", "urdf_collision_from_cylinder" }

\* The object given to a per-primitive function is of the kind it expects.
ExpectedKind(f, obj) ==
    IF f \in BoxFns \cup {"urdf_box_placement_from_object"} THEN is_box(obj)
    ELSE IF f \in SphereFns \cup {"urdf_sphere_placement_from_object"} THEN is_sphere(obj)
    ELSE is_cylinder(obj)

\* The children of xml with the given tag, in order.
ChildrenTagged(xml, tag) == SelectSeq(xml.children, LAMBDA c : c.tag = tag)

\* The centre of a primitive whose reference point has placement p: p moved
\* by the offset along the axes p has turned; no offset for any other object.
CentreOffset(obj) ==
    IF is_box(obj) THEN Vector(obj.Length \div 2, obj.Width \div 2, obj.Height \div 2)
    ELSE IF is_cylinder(obj) THEN Vector(0, 0, obj.Height \div 2)
    ELSE Vector(0, 0, 0)

CentreOf(obj, p) ==
    Placement(VAdd(p.Base, multVec(p.Rotation, CentreOffset(obj))), p.Rotation)

\* C1: every fragment a primitive emitter returns is an element named after
\* the role whose element children are exactly one origin followed by exactly
\* one geometry.
C1_FragmentIsOriginThenGeometry ==
    (Done /\ fn \in EmitterFns /\ ret.raised = "") =>
        LET xml == ret.value[1]
            c == ElementChildren(xml)
        IN  /\ xml.tag = Role(fn)
            /\ Len(c) = 2
            /\ c[1].tag = "origin"
            /\ c[2].tag = "geometry"

\* C2: the box and cylinder emitters, given placement P for an object that
\* stores placement O, centre and write P composed with O (O first, then P in
\* the parent frame) when ignore_obj_placement is false, and exactly P, whatever
\* O is, when it is true.
C2_PlacementComposition ==
    (/\ Done
     /\ fn \in BoxFns \cup CylinderFns
     /\ ExpectedKind(fn, args.obj)
     /\ PlacementOrDefault(args) # None) =>
        LET P == PlacementOrDefault(args)[1]
            O == args.obj.Placement[1]
            used == IF args.ignore_obj_placement
                    THEN P
                    ELSE Placement(VAdd(P.Base, multVec(P.Rotation, O.Base)),
                                   RMul(P.Rotation, O.Rotation))
        IN  /\ ret.raised = ""
            /\ ChildrenTagged(ret.value[1], "origin")
                   = << urdf_origin_from_placement(CentreOf(args.obj, used)) >>

\* C2 witness: a cylinder emitted with ignore_obj_placement false, where the
\* rotations of P and O do not commute and both translate.
C2_Witness ==
    /\ Done
    /\ fn = "urdf_collision_from_cylinder"
    /\ is_cylinder(args.obj)
    /\ ~args.ignore_obj_placement
    /\ args.placement = Some(Placement(Vector(Unit, 2 * Unit, 3 * Unit), <<0, 0, 1, 1>>))
    /\ args.obj.Placement
           = Some(Placement(Vector(10 * Unit, 20 * Unit, 30 * Unit), <<1, 0, 0, 1>>))
    /\ ret.raised = ""
    /\ ChildrenTagged(ret.value[1], "origin")[1].attrib.rpy = <<1, 0, 1>>

\* C3: the centre placement of a primitive is the input placement (the one
\* given, the object's own when none is given) moved along its own axes by
\* (length, width, height)/2 for a box, (0, 0, height/2) for a cylinder and
\* not at all for a sphere, its rotation unchanged.
C3_CentrePlacement ==
    (Done /\ fn \in PlacementFns /\ ExpectedKind(fn, args.obj)) =>
        LET inp == IF args.placement = None
                   THEN args.obj.Placement[1]
                   ELSE args.placement[1]
            half == CASE fn = "urdf_box_placement_from_object" ->
                             Vector(args.obj.Length \div 2, args.obj.Width \div 2,
                                    args.obj.Height \div 2)
                      [] fn = "urdf_cylinder_placement_from_object" ->
                             Vector(0, 0, args.obj.Height \div 2)
                      [] fn = "urdf_sphere_placement_from_object" -> Vector(0, 0, 0)
        IN  /\ ret.raised = ""
            /\ ret.value[1].Rotation = inp.Rotation
            /\ ret.value[1].Base = VAdd(inp.Base, multVec(inp.Rotation, half))
            /\ fn = "urdf_sphere_placement_from_object" => ret.value[1] = inp

\* C3 witness: a box with a turned placement of its own and no placement
\* given; the offset (0.5, 1, 0.5) mm lands on other axes.
C3_Witness ==
    /\ Done
    /\ fn = "urdf_box_placement_from_object"
    /\ args.placement = None
    /\ args.obj = DocumentObject("Part::Box", "arm",
                      Some(Placement(Vector(10 * Unit, 20 * Unit, 30 * Unit),
                                     <<1, 0, 0, 1>>)),
                      Unit, 2 * Unit, Unit, 0)
    /\ ret.raised = ""
    /\ ret.value[1].Base = Vector(10 * Unit + 5000, 20 * Unit - 5000, 30 * Unit + 10000)

\* A number written for the millimetre value mm is mm converted to metres
\* once: not mm itself and not mm converted twice.  An origin is printed with
\* 6 significant digits (printed = TRUE), a dimension in full.
ConvertedOnce(written, mm, printed) ==
    LET F(x) == IF printed THEN Format6(x) ELSE x
    IN  /\ written = F(mm \div 1000)
        /\ mm # 0 => written # F(mm) /\ written # F(mm \div 1000000)

\* Every length of fragment xml is converted once, for an object obj whose
\* centre lies at base (in millimetres).
LengthsConvertedOnce(xml, obj, base) ==
    /\ \A k \in 1..Len(xml.children) :
          xml.children[k].tag = "origin" =>
              \A i \in 1..3 :
                  ConvertedOnce(xml.children[k].attrib.xyz[i], base[i], TRUE)
    /\ \A k \in 1..Len(xml.children) :
          xml.children[k].tag = "geometry" =>
              LET g == xml.children[k].children[1]
              IN  /\ g.tag = "box" =>
                        /\ ConvertedOnce(g.attrib.size[1], obj.Length, FALSE)
                        /\ ConvertedOnce(g.attrib.size[2], obj.Width, FALSE)
                        /\ ConvertedOnce(g.attrib.size[3], obj.Height, FALSE)
                  /\ g.tag = "cylinder" =>
                        /\ ConvertedOnce(g.attrib.radius, obj.Radius, FALSE)
                        /\ ConvertedOnce(g.attrib.length, obj.Height, FALSE)
                  /\ g.tag = "sphere" =>
                        ConvertedOnce(g.attrib.radius, obj.Radius, FALSE)

\* C4: every length written into a fragment (each origin xyz component, the
\* centring offset included, and each dimension) is the millimetre value
\* converted to metres exactly once.
C4_ConvertedExactlyOnce ==
    /\ (Done /\ fn \in EmitterFns /\ ret.raised = "") =>
           LET P == PlacementOrDefault(args)
               O == args.obj.Placement[1]
               used == IF ~args.ignore_obj_placement THEN PMul(P[1], O)
                       ELSE IF P = None THEN O
                       ELSE P[1]
           IN  LengthsConvertedOnce(ret.value[1], args.obj,
                                    CentreOf(args.obj, used).Base)
    /\ (Done /\ fn \in MeshFns /\ ret.raised = "") =>
           LengthsConvertedOnce(ret.value[1], args.obj, PlacementOrDefault(args)[1].Base)
    /\ (Done /\ fn \in ObjectFns /\ ret.raised = "") =>
           \A n \in 1..Len(ret.value[1]) :
               LET r == ret.value[1][n]
               IN  LengthsConvertedOnce(r.xml, r.object,
                                        CentreOf(r.object, r.placement).Base)

\* C4 witness: a box of 1 x 2 x 1 mm at the origin: the centre (0.5, 1, 0.5) mm
\* is written as (0.0005, 0.001, 0.0005) m and the size as (0.001, 0.002, 0.001).
C4_Witness ==
    /\ Done
    /\ fn = "urdf_visual_from_box"
    /\ ret.raised = ""
    /\ ChildrenTagged(ret.value[1], "origin")[1].attrib.xyz = <<5, 10, 5>>
    /\ ChildrenTagged(ret.value[1], "geometry")[1].children[1].attrib.size
           = <<10, 20, 10>>

\* The leaf is exported as a mesh: its resolved object is no primitive.
IsMeshLeaf(leaf) ==
    /\ ~is_box(leaf.linked_object)
    /\ ~is_sphere(leaf.linked_object)
    /\ ~is_cylinder(leaf.linked_object)

\* The filename attribute of the mesh element of a fragment.
MeshReference(xml) == ChildrenTagged(xml, "geometry")[1].children[1].attrib.filename

\* C5: the generic dispatcher returns one export record for each leaf of the
\* flattening, in the order of the leafs, the i-th record's object being the
\* resolved object of the i-th leaf.
C5_OneRecordPerLeafInOrder ==
    (Done /\ fn \in ObjectFns) =>
        /\ ret.raised = ""
        /\ Len(ret.value[1]) = Len(args.obj.leafs)
        /\ \A i \in 1..Len(args.obj.leafs) :
               ret.value[1][i].object = args.obj.leafs[i].linked_object

\* C5 witness: a group of a box and a shape that is no primitive, in this
\* order, exported to two records.
C5_Witness ==
    /\ Done
    /\ fn = "urdf_visual_from_object"
    /\ Len(args.obj.leafs) = 2
    /\ is_box(args.obj.leafs[1].linked_object)
    /\ IsMeshLeaf(args.obj.leafs[2])
    /\ ret.raised = ""
    /\ Len(ret.value[1]) = 2
    /\ is_box(ret.value[1][1].object)
    /\ ret.value[1][2].object.TypeId = "Part::Feature"

\* C6: the record of a mesh leaf names the file after the leaf's own label,
\* made safe and followed by '.dae', and the fragment's mesh reference ends
\* with the same name; the record of a primitive leaf has the empty name.
C6_MeshFilenameFromLeafLabel ==
    (Done /\ fn \in ObjectFns /\ ret.raised = "") =>
        \A i \in 1..Len(ret.value[1]) :
            LET leaf == args.obj.leafs[i]
                r == ret.value[1][i]
            IN  IF IsMeshLeaf(leaf)
                THEN /\ r.mesh_filename
                            = get_valid_filename(leaf.linked_object.Label) \o ".dae"
                     /\ \E pkg \in {"package", "my_robot"} :
                            MeshReference(r.xml)
                                = "package://" \o pkg \o "/meshes/" \o r.mesh_filename
                ELSE r.mesh_filename = ""

\* C7: without a package name (None or empty) and with a leaf that is no
\* primitive, every mesh fragment refers to the package 'package', the call
\* warns exactly once, raises nothing and returns a record for every leaf;
\* a call without any mesh leaf does not warn.
C7_PackageFallbackWarnsOnce ==
    (Done /\ fn \in ObjectFns) =>
        LET leafs == args.obj.leafs
            meshes == { i \in 1..Len(leafs) : IsMeshLeaf(leafs[i]) }
        IN  /\ (args.package_name \in {None, Some("")} /\ meshes # {}) =>
                   /\ ret.raised = ""
                   /\ Len(ret.value[1]) = Len(leafs)
                   /\ Len(warned) = 1
                   /\ \A i \in meshes :
                          MeshReference(ret.value[1][i].xml)
                              = "package://package/meshes/"
                                    \o ret.value[1][i].mesh_filename
            /\ meshes = {} => warned = <<>>

\* C7 witness: two mesh leafs exported with the empty package name: one
\* warning, two records.
C7_Witness ==
    /\ Done
    /\ fn = "urdf_collision_from_object"
    /\ args.package_name = Some("")
    /\ Len(args.obj.leafs) = 2
    /\ IsMeshLeaf(args.obj.leafs[1])
    /\ IsMeshLeaf(args.obj.leafs[2])
    /\ Len(warned) = 1
    /\ ret.raised = ""
    /\ Len(ret.value[1]) = 2

\* The error a per-primitive function raises for an object of another kind.
KindError(f) ==
    CASE f = "urdf_box_placement_from_object" ->
             "RuntimeError: First argument must be a 'Part::Box'"
      [] f = "urdf_sphere_placement_from_object" ->
             "RuntimeError: First argument must be a 'Part::Sphere'"
      [] f = "urdf_cylinder_placement_from_object" ->
             "RuntimeError: Argument must be a 'Part::Cylinder'"
      [] f \in BoxFns -> "RuntimeError: Argument must be a 'Part::Box'"
      [] f \in SphereFns -> "RuntimeError: Argument must be a 'Part::Sphere'"
      [] f \in CylinderFns -> "RuntimeError: Argument must be a 'Part::Cylinder'"

\* C8: each per-primitive function raises its invalid-kind error for an
\* object of another kind, before it reads a placement or builds XML (nothing
\* is returned, and no other error comes first), and never raises it for an
\* object of its kind.
C8_InvalidKindRaisesFirst ==
    (Done /\ fn \in PlacementFns \cup EmitterFns) =>
        IF ExpectedKind(fn, args.obj)
        THEN \A f \in PlacementFns \cup EmitterFns : ret.raised # KindError(f)
        ELSE ret = Raise(KindError(fn))

\* C8 witness: the sphere emitter given an object that is no sphere and has no
\* Placement attribute, with placement None and ignore_obj_placement false (the
\* composition would raise a TypeError, had it been reached).
C8_Witness ==
    /\ Done
    /\ fn = "urdf_visual_from_sphere"
    /\ args.obj.TypeId = "App::FeaturePython"
    /\ ~has_placement(args.obj)
    /\ args.placement_given
    /\ args.placement = None
    /\ ~args.ignore_obj_placement
    /\ ret = Raise("RuntimeError: Argument must be a 'Part::Sphere'")

\* C9: the mesh reference emitter raises its missing-attribute error exactly
\* when the object has no Placement attribute and the caller supplied no
\* placement; in every other case it returns a fragment whose origin is built
\* from the placement given (the default or the object's own when none is),
\* with no centring offset.
C9_MeshFailsExactlyWithoutPlacement ==
    (Done /\ fn \in MeshFns) =>
        LET supplied == args.placement_given /\ args.placement # None
        IN  IF ~has_placement(args.obj) /\ ~supplied
            THEN ret = Raise("RuntimeError: Argument must be a FreeCAD object with a 'Placement' attribute")
            ELSE /\ ret.raised = ""
                 /\ \/ /\ supplied
                       /\ ChildrenTagged(ret.value[1], "origin")
                              = << urdf_origin_from_placement(args.placement[1]) >>
                    \/ /\ ~supplied
                       /\ ChildrenTagged(ret.value[1], "origin")
                              \in { << urdf_origin_from_placement(Placement0) >>,
                                    << urdf_origin_from_placement(args.obj.Placement[1]) >> }

\* A child of a group that export_group_with_lcs does not accept: no link, or
\* a link to something that is neither a coordinate system nor a part.
NonConforming(child) ==
    \/ child.TypeId # "App::Link"
    \/ child.LinkedObject.TypeId \notin {"PartDesign::CoordinateSystem", "App::Part"}

\* The warning export_group_with_lcs owes a non-conforming child.
WarningFor(child) ==
    IF child.TypeId # "App::Link"
    THEN "'" \o child.Label \o "' is not a link, ignoring"
    ELSE "Linked object of '" \o child.Label
             \o "' is not a coordinate system or part, ignoring"

\* C10: export_group_with_lcs raises an invalid-argument error, without any
\* warning, for an input that is no group; for a group it warns once for each
\* non-conforming child, in the order of the children, not for the others, and
\* returns True.
C10_GroupValidation ==
    (Done /\ fn = "export_group_with_lcs") =>
        IF args.group.TypeId # "App::DocumentObjectGroup"
        THEN /\ ret = Raise("ValueError: First argument must be a group, i.e. 'App::DocumentObjectGroup'")
             /\ warned = <<>>
        ELSE LET bad == SelectSeq(args.group.Group, NonConforming)
             IN  /\ ret = Return(TRUE)
                 /\ Len(warned) = Len(bad)
                 /\ \A k \in 1..Len(bad) : warned[k] = WarningFor(bad[k])

\* C10 witness: a group of a child that is no link, a link to a coordinate
\* system and a link to a box: two warnings, the result True.
C10_Witness ==
    /\ Done
    /\ fn = "export_group_with_lcs"
    /\ Len(args.group.Group) = 3
    /\ args.group.Group[1].TypeId = "Part::Box"
    /\ args.group.Group[2].LinkedObject.TypeId = "PartDesign::CoordinateSystem"
    /\ args.group.Group[3].TypeId = "App::Link"
    /\ args.group.Group[3].LinkedObject.TypeId = "Part::Box"
    /\ Len(warned) = 2
    /\ ret = Return(TRUE)


\* The rows of the product of two 3x3 matrices.
MatMul(a, b) ==
    [r \in 1..3 |-> [c \in 1..3 |->
        a[r][1] * b[1][c] + a[r][2] * b[2][c] + a[r][3] * b[3][c]]]

\* Cosine and sine of an angle counted in quarter turns.
Cos4(a) == CASE a % 4 = 0 -> 1 [] a % 4 = 2 -> -1 [] OTHER -> 0

Sin4(a) == CASE a % 4 = 1 -> 1 [] a % 4 = 3 -> -1 [] OTHER -> 0

\* The elementary rotation matrices about x, y and z.
Rx(a) == << <<1, 0, 0>>, <<0, Cos4(a), -Sin4(a)>>, <<0, Sin4(a), Cos4(a)>> >>

Ry(a) == << <<Cos4(a), 0, Sin4(a)>>, <<0, 1, 0>>, <<-Sin4(a), 0, Cos4(a)>> >>

Rz(a) == << <<Cos4(a), -Sin4(a), 0>>, <<Sin4(a), Cos4(a), 0>>, <<0, 0, 1>> >>

\* The vectors a rotation is tried on.
TestVectors == {-1, 0, 1} \X {-1, 0, 1} \X {-1, 0, 1}

\* The quaternion q was given to rpy_from_quaternion and cy was not above
\* _EPS: the gimbal-lock branch of euler_from_matrix was taken.
GimbalLocked(q) ==
    LET m == quaternion_matrix(q)
    IN  Sqrt(m[1][1] * m[1][1] + m[2][1] * m[2][1]) <= _EPS

\* C11: rotation_from_rpy(rpy_from_quaternion(q)) turns every vector as q
\* does, in the gimbal-lock branch too, and rotation_from_rpy(roll, pitch,
\* yaw) is the rotation Rz(yaw) * Ry(pitch) * Rx(roll).
C11_RpyRoundTrip ==
    /\ (fn = "rpy_from_quaternion" /\ pc = "back")
          => /\ ret.raised = ""
             /\ \A v \in TestVectors :
                    multVec(ret.value[1], v) = multVec(args.q, v)
    /\ (fn = "rotation_from_rpy" /\ pc = "done")
          => /\ ret.raised = ""
             /\ Mat3(ret.value[1])
                    = MatMul(Rz(args.rpy[3]), MatMul(Ry(args.rpy[2]), Rx(args.rpy[1])))

\* A round trip through the gimbal-lock branch, with a roll that is not 0.
C11_Witness ==
    /\ fn = "rpy_from_quaternion" /\ pc = "back"
    /\ GimbalLocked(args.q)
    /\ rpy_from_quaternion(args.q)[1] # 0
    /\ rpy_from_quaternion(args.q)[3] = 0
    /\ Mat3(ret.value[1]) = Mat3(args.q)

\* C14: euler_from_matrix takes the non-degenerate branch exactly when cy is
\* strictly above _EPS; at or below _EPS the yaw is exactly 0, the roll is
\* atan2(-M[1,2], M[1,1]) and the pitch is atan2(-M[2,0], cy).
C14_GimbalLockBoundary ==
    (fn = "euler_from_matrix" /\ pc = "done")
        => LET M(r, c) == args.matrix[r + 1][c + 1]
               cy == Sqrt(M(0, 0) * M(0, 0) + M(1, 0) * M(1, 0))
               rpy == ret.value[1]
           IN  /\ ret.raised = ""
               /\ cy > _EPS
                    => rpy = << Atan2(M(2, 1), M(2, 2)), Atan2(-M(2, 0), cy),
                                Atan2(M(1, 0), M(0, 0)) >>
               /\ cy <= _EPS
                    => rpy = << Atan2(-M(1, 2), M(1, 1)), Atan2(-M(2, 0), cy), 0 >>

\* cy is exactly _EPS, and the non-degenerate formulas would have given
\* another roll and another yaw than the ones returned.
C14_Witness ==
    /\ fn = "euler_from_matrix" /\ pc = "done"
    /\ LET M(r, c) == args.matrix[r + 1][c + 1]
           cy == Sqrt(M(0, 0) * M(0, 0) + M(1, 0) * M(1, 0))
       IN  /\ cy = _EPS
           /\ ret.value[1][3] = 0
           /\ Atan2(M(1, 0), M(0, 0)) # 0
           /\ ret.value[1][1] # Atan2(M(2, 1), M(2, 2))

\* The accumulated placement of a leaf: the placement of the matrix its link
\* resolution returned, with the caller's placement, when one is given, on
\* the left.
AccumulatedPlacement(leaf, placement) ==
    IF placement = None
    THEN PlacementOfMatrix(leaf.linked_matrix)
    ELSE PMul(placement[1], PlacementOfMatrix(leaf.linked_matrix))

\* The tag of the geometry the kind of an object selects.
GeometryOf(obj) ==
    IF is_box(obj) THEN "box"
    ELSE IF is_sphere(obj) THEN "sphere"
    ELSE IF is_cylinder(obj) THEN "cylinder"
    ELSE "mesh"

\* C13: in the generic dispatcher the record of every leaf holds the leaf's
\* accumulated placement, the geometry is selected by the kind of the resolved
\* object, and the fragment has one origin, the one of the centre of the
\* accumulated placement: the placement the object stores is not composed a
\* second time.
C13_LeafPlacementAppliedOnce ==
    (Done /\ fn \in ObjectFns /\ ret.raised = "") =>
        \A i \in 1..Len(ret.value[1]) :
            LET leaf == args.obj.leafs[i]
                rec == ret.value[1][i]
                acc == AccumulatedPlacement(leaf, args.placement)
                origins == ChildrenTagged(rec.xml, "origin")
            IN  /\ rec.placement = acc
                /\ ChildrenTagged(rec.xml, "geometry")[1].children[1].tag
                       = GeometryOf(leaf.linked_object)
                /\ Len(origins) = 1
                /\ origins[1]
                       = urdf_origin_from_placement(CentreOf(leaf.linked_object, acc))

\* What a call of an emitter returns or raises when it is the only call ever
\* made: the default placement is the identity.
ResultAlone(f, a) ==
    LET placement == IF a.placement_given THEN a.placement ELSE Some(Placement0)
    IN  CASE f \in BoxFns
               -> _urdf_generic_from_box(a.obj, Role(f), placement,
                                         a.ignore_obj_placement)
          [] f \in SphereFns
               -> _urdf_generic_from_sphere(a.obj, Role(f), placement,
                                            a.ignore_obj_placement)
          [] f \in CylinderFns
               -> _urdf_generic_from_cylinder(a.obj, Role(f), placement,
                                              a.ignore_obj_placement)
          [] f \in MeshFns
               -> _urdf_generic_mesh(a.obj, a.mesh_name, a.package_name, Role(f),
                                     placement)

\* C12: no call of a centre-placement function, an emitter or the dispatcher
\* changes the object it is given, the placement the caller supplies or the
\* shared default placement, and a call made after other calls returns what
\* it returns when made alone.
C12_NoHostMutation ==
    /\ [](default_placement = [f \in EmitterFns \cup MeshFns |-> Placement0])
    /\ [][(pc = "call" /\ fn \in PlacementFns \cup EmitterFns \cup MeshFns
                                   \cup ObjectFns) => args' = args]_vars
    /\ []((Done /\ calls > 1) => ret = ResultAlone(fn, args))

\* A box emitter called with the placement omitted, after a call of the same
\* emitter that omitted it too and composed the shared default with the
\* placement of its box.
C12_Witness ==
    /\ Done
    /\ calls = 2
    /\ fn \in BoxFns
    /\ prev.fn = fn /\ prev.shared /\ prev.composed
    /\ ~args.placement_given
    /\ args.obj.Placement # Some(Placement0)
    /\ ret = ResultAlone(fn, args)
    /\ default_placement[fn] = Placement0

\* C15: in Activated every transaction that was opened is closed before the
\* next selected object is processed and before Activated returns.
C15_TransactionsClosed ==
    (fn = "Activated" /\ pc \in {"loop", "done"}) => doc.transaction = None

\* What is done for a selected object when it is the only one selected.
ProcessedAlone(sel) ==
    Activated_body([Frame0 EXCEPT !.i = 1], Document0, sel,
                   args.placement_is_copy).frame.results[1]

\* C16: what Activated does for a selected object (the cylinder, its height,
\* radius and placement, the commit of its transaction) is what it does for
\* that object when it is the only one selected.
C16_ObjectResultIndependent ==
    fn = "Activated" =>
        \A k \in 1..Len(frame.results) :
            frame.results[k] = ProcessedAlone(args.selection[k])

=============================================================================
